---- MODULE Spec2Model ----
(***************************************************************************)
(* Model of ApiKeyAJM.py: construction of an APIKeyFromFile or a           *)
(* RemoteAPIKey resolver, one action per block of statements of the        *)
(* constructors.  Python values are records tagged by "kind"; a str is a   *)
(* sequence of tokens (a token stands for a run of characters), so that    *)
(* str.strip() and json.load() are computed rather than assumed.           *)
(***************************************************************************)
EXTENDS Integers, Sequences, FiniteSets, TLC

VARIABLES cls, kwargs, pc, api_key, api_key_location, file_mode_attr,
          json_key_attr, full_url, hasLogger, log, opens, posts, raised,
          fileRead, response

vars == <<cls, kwargs, pc, api_key, api_key_location, file_mode_attr,
          json_key_attr, full_url, hasLogger, log, opens, posts, raised,
          fileRead, response>>

(* ---------------------------- bounds ---------------------------------- *)

\* longest run of whitespace tokens put before and after a file's contents
MaxPad == 1

(* ------------------------- Python values ------------------------------ *)

Absent == [kind |-> "absent"]          \* keyword not passed / attribute not set
None == [kind |-> "None"]
Str(s) == [kind |-> "str", s |-> s]
Dict(m) == [kind |-> "dict", m |-> m]
JSONDecodeError == [kind |-> "JSONDecodeError"]
PathOf(stem, suffix) == [kind |-> "path", stem |-> stem, suffix |-> suffix]

EmptyMap == [k \in {} |-> None]

\* bool(v) of the values the constructors test with "not v" / "if v"
Truthy(v) ==
    CASE v.kind = "absent" -> FALSE
      [] v.kind = "None" -> FALSE
      [] v.kind = "str" -> Len(v.s) > 0
      [] v.kind = "dict" -> DOMAIN v.m # {}
      [] OTHER -> TRUE

\* kwargs.get(name) and kwargs.get(name, default)
Get(v) == IF v = Absent THEN None ELSE v
GetDefault(v, default) == IF v = Absent THEN default ELSE v

(* ------------------------ str.strip() --------------------------------- *)

Whitespace == {" ", "\n"}

RECURSIVE LStrip(_)
LStrip(s) ==
    IF s # <<>> /\ Head(s) \in Whitespace THEN LStrip(Tail(s)) ELSE s

RECURSIVE RStrip(_)
RStrip(s) ==
    IF s # <<>> /\ s[Len(s)] \in Whitespace
    THEN RStrip(SubSeq(s, 1, Len(s) - 1)) ELSE s

\* a strip that leaves the trailing whitespace in place
StripLeftOnly(s) == LStrip(s)

Strip(s) == RStrip(LStrip(s))

(* ------------------------ json.load() --------------------------------- *)

QuotedTokens == {"\"api_key\"", "\"token\"", "\"abc\"", "\"xyz\"", "\"\""}

Unquote(tok) ==
    CASE tok = "\"api_key\"" -> <<"api_key">>
      [] tok = "\"token\"" -> <<"token">>
      [] tok = "\"abc\"" -> <<"abc">>
      [] tok = "\"xyz\"" -> <<"xyz">>
      [] OTHER -> <<>>

IsJsonScalar(tok) == tok \in QuotedTokens \/ tok = "null"

JsonScalar(tok) == IF tok = "null" THEN None ELSE Str(Unquote(tok))

NotWhitespace(tok) == tok \notin Whitespace

JsonLoad(toks) ==
    LET t == SelectSeq(toks, NotWhitespace) IN
    CASE Len(t) = 1 /\ IsJsonScalar(t[1]) -> JsonScalar(t[1])
      [] t = <<"{", "}">> -> Dict(EmptyMap)
      [] Len(t) = 5 /\ t[1] = "{" /\ t[2] \in QuotedTokens /\ t[3] = ":"
            /\ IsJsonScalar(t[4]) /\ t[5] = "}"
         -> Dict(Unquote(t[2]) :> JsonScalar(t[4]))
      [] OTHER -> JSONDecodeError

(* --------------------------- pathlib ---------------------------------- *)

\* a location string is the pair <<stem, suffix>>, '' is the empty sequence
KeyTxt == Str(<<"key", ".txt">>)
KeyJson == Str(<<"key", ".json">>)
KeyIni == Str(<<"key", ".ini">>)
NoKeyTxt == Str(<<"nokey", ".txt">>)
NoKeyJson == Str(<<"nokey", ".json">>)
NoKeyIni == Str(<<"nokey", ".ini">>)

\* Path(s): Path('') is Path('.'), which has no suffix
Path(v) == IF v.s = <<>> THEN PathOf(".", "") ELSE PathOf(v.s[1], v.s[2])

\* Path(p).is_file(): the files on disk are the ones whose stem is "key"
IsFile(p) == p.kind = "path" /\ p.stem = "key"

\* suffix.split('.')[-1]
SuffixTail(p) ==
    CASE p.suffix = ".txt" -> <<"txt">>
      [] p.suffix = ".json" -> <<"json">>
      [] p.suffix = ".ini" -> <<"ini">>
      [] OTHER -> <<>>

(* --------------------------- exceptions ------------------------------- *)

NoError == [exc |-> "none", line |-> 0, arg |-> <<>>]
Raise(exc, line, arg) == [exc |-> exc, line |-> line, arg |-> arg]

LogEntry(level, msg) == [level |-> level, msg |-> msg]

(* --------------------------- inputs ----------------------------------- *)

Text == Str(<<"text">>)
Json == Str(<<"json">>)
Yaml == Str(<<"yaml">>)
Literal == Str(<<"lit">>)
Empty == Str(<<>>)

VALID_FILE_MODES == {Text, Json}
DEFAULT_FILE_MODE == Text

FileKwargs ==
    [api_key : {Absent, Empty, Literal},
     api_key_location : {Absent, Empty, KeyTxt, KeyJson, KeyIni,
                         NoKeyTxt, NoKeyJson, NoKeyIni},
     file_mode : {Absent, None, Text, Json, Yaml},
     json_key : {Absent, Empty, Str(<<"api_key">>), Str(<<"other">>)},
     DEFAULT_KEY_LOCATION : {None, KeyTxt},
     base_url : {Absent}, username : {Absent}, password : {Absent}]

GoodUrl == Str(<<"http", "://", "127.0.0.1:5000">>)
BadUrl == Str(<<"not a url">>)
Endpoint == "get_api_key"

RemoteKwargs ==
    [api_key : {Absent, Empty, Literal},
     api_key_location : {Absent}, file_mode : {Absent}, json_key : {Absent},
     DEFAULT_KEY_LOCATION : {None},
     base_url : {Empty, BadUrl, GoodUrl},
     username : {Absent, Empty, Str(<<"andrew">>)},
     password : {Absent, Empty, Str(<<"pw">>)}]

\* whitespace runs of at most n tokens
RECURSIVE Pads(_)
Pads(n) ==
    IF n = 0 THEN {<<>>}
    ELSE Pads(n - 1) \cup {<<w>> \o p : w \in Whitespace, p \in Pads(n - 1)}

FileCores ==
    { <<>>,
      <<"secret123">>,
      <<"a", " ", "b">>,
      <<"{", "\"api_key\"", ":", " ", "\"abc\"", "}">>,
      <<"{", "\"token\"", ":", " ", "\"abc\"", "}">>,
      <<"{", "\"api_key\"", ":", " ", "\"\"", "}">>,
      <<"{", "}">>,
      <<"\"abc\"">>,
      <<"null">>,
      <<"{">> }

\* what open(key_path).read() can return
FileContents ==
    {l \o c \o r : l \in Pads(MaxPad), c \in FileCores, r \in Pads(MaxPad)}

Bodies ==
    { <<"{", "\"api_key\"", ":", " ", "\"xyz\"", "}">>,
      <<"{", "\"api_key\"", ":", " ", "\"\"", "}">>,
      <<"{", "\"api_key\"", ":", " ", "null", "}">>,
      <<"{", "\"token\"", ":", " ", "\"xyz\"", "}">>,
      <<"{", "}">>,
      <<"\"xyz\"">>,
      <<"\"\"">>,
      <<"null">>,
      <<"denied">>,
      <<>> }

NoResponse == [kind |-> "none"]
ConnectionRefused == [kind |-> "connection_error"]
HttpResponse(status, body) == [kind |-> "http", status |-> status, body |-> body]

\* what requests.post can produce for a well-formed URL
Responses ==
    {ConnectionRefused}
        \cup {HttpResponse(st, b) : st \in {200, 401, 500}, b \in Bodies}

\* response.ok
Ok(resp) == resp.status < 400

(* --------------------------- state ------------------------------------ *)

Init ==
    /\ cls \in {"APIKeyFromFile", "RemoteAPIKey"}
    /\ kwargs \in IF cls = "APIKeyFromFile" THEN FileKwargs ELSE RemoteKwargs
    /\ pc = IF cls = "APIKeyFromFile" THEN "f_path" ELSE "r_url"
    /\ api_key = Absent
    /\ api_key_location = Absent
    /\ file_mode_attr = Absent
    /\ json_key_attr = Absent
    /\ full_url = Absent
    /\ hasLogger = FALSE
    /\ log = <<>>
    /\ opens = 0
    /\ posts = 0
    /\ raised = NoError
    /\ fileRead = Absent
    /\ response = NoResponse

\* an exception leaves the constructor: nothing else of the object changes
Fail(exc, line, arg) ==
    /\ raised' = Raise(exc, line, arg)
    /\ pc' = "failed"

(* ----------------------- APIKeyFromFile.__init__ ---------------------- *)

\* line 74: self.api_key_location = Path(kwargs.get('api_key_location'))
FileInitPath ==
    /\ pc = "f_path"
    /\ IF Get(kwargs.api_key_location) = None
       THEN /\ Fail("TypeError", 74, <<>>)
            /\ UNCHANGED api_key_location
       ELSE /\ api_key_location' = Path(kwargs.api_key_location)
            /\ pc' = "f_suffix"
            /\ UNCHANGED raised
    /\ UNCHANGED <<cls, kwargs, api_key, file_mode_attr, json_key_attr,
                   full_url, hasLogger, log, opens, posts, fileRead, response>>

\* self.logger.<level>(msg): the attribute exists only after _initialize_logger
LoggerCall(level, msg, line, next) ==
    IF hasLogger
    THEN /\ log' = Append(log, LogEntry(level, msg))
         /\ pc' = next
         /\ UNCHANGED raised
    ELSE /\ Fail("AttributeError", line, <<"logger">>)
         /\ UNCHANGED log

\* lines 75-81: the mode inferred from the suffix
FileInitSuffix ==
    /\ pc = "f_suffix"
    /\ IF api_key_location.suffix = ".json"
       THEN /\ file_mode_attr' = Json
            /\ pc' = "f_mode"
            /\ UNCHANGED <<raised, log>>
       ELSE IF api_key_location.suffix = ".txt"
       THEN /\ file_mode_attr' = Text
            /\ pc' = "f_mode"
            /\ UNCHANGED <<raised, log>>
       ELSE /\ LoggerCall("warning", "extension is not .json or .txt", 80, "f_mode")
            /\ UNCHANGED file_mode_attr
    /\ UNCHANGED <<cls, kwargs, api_key, api_key_location, json_key_attr,
                   full_url, hasLogger, opens, posts, fileRead, response>>

\* lines 82-84: the mode and the sub-key from the keyword arguments
FileInitMode ==
    /\ pc = "f_mode"
    /\ file_mode_attr' = GetDefault(kwargs.file_mode, DEFAULT_FILE_MODE)
    /\ json_key_attr' = Get(kwargs.json_key)
    /\ pc' = "base"
    /\ UNCHANGED <<cls, kwargs, api_key, api_key_location, full_url,
                   hasLogger, log, opens, posts, raised, fileRead, response>>

(* ------------------------ _APIKeyBase.__init__ ------------------------ *)

\* the api_key keyword _APIKeyBase.__init__ receives (line 84, line 153)
BaseApiKeyArg == IF cls = "RemoteAPIKey" THEN api_key ELSE kwargs.api_key

\* lines 47-50: the logger, the literal key and the decision to fetch
BaseInit ==
    /\ pc = "base"
    /\ hasLogger' = TRUE
    /\ api_key' = Get(BaseApiKeyArg)
    /\ pc' = IF Truthy(Get(BaseApiKeyArg)) THEN "complete" ELSE "prep"
    /\ UNCHANGED <<cls, kwargs, api_key_location, file_mode_attr,
                   json_key_attr, full_url, log, opens, posts, raised,
                   fileRead, response>>

\* line 51: _prep_for_fetch; lines 96-105 for a file, line 60 otherwise
PrepForFetch ==
    /\ pc = "prep"
    /\ IF cls = "RemoteAPIKey"
       THEN /\ Fail("NotImplementedError", 60, <<>>)
            /\ UNCHANGED api_key_location
       ELSE IF Truthy(api_key_location)
       THEN /\ pc' = "f_locate"
            /\ UNCHANGED <<raised, api_key_location>>
       ELSE IF ~Truthy(kwargs.DEFAULT_KEY_LOCATION)
       THEN /\ Fail("AttributeError", 102, <<"api_key_location">>)
            /\ UNCHANGED api_key_location
       ELSE /\ api_key_location' = kwargs.DEFAULT_KEY_LOCATION
            /\ pc' = "f_locate"
            /\ UNCHANGED raised
    /\ UNCHANGED <<cls, kwargs, api_key, file_mode_attr, json_key_attr,
                   full_url, hasLogger, log, opens, posts, fileRead, response>>

\* line 54
Complete ==
    /\ pc = "complete"
    /\ log' = Append(log, LogEntry("info", "Initialization complete"))
    /\ pc' = "done"
    /\ UNCHANGED <<cls, kwargs, api_key, api_key_location, file_mode_attr,
                   json_key_attr, full_url, hasLogger, opens, posts, raised,
                   fileRead, response>>

(* -------------------- APIKeyFromFile._fetch_api_key ------------------- *)

\* lines 86-94: the value of the file_mode property
FileModeProperty(mode) ==
    IF Truthy(mode) /\ mode \in VALID_FILE_MODES THEN mode ELSE None

\* lines 89-93: the property logs a warning each time it is read
FileModeWarns(mode, path) ==
    /\ FileModeProperty(mode) = Json
    /\ SuffixTail(path) # mode.s

Returned(v) == [ok |-> TRUE, val |-> v]
Thrown(exc, line, arg) == [ok |-> FALSE, exc |-> exc, line |-> line, arg |-> arg]

\* line 129: json.load(f)[self._json_key]
Subscript(doc, key) ==
    IF doc.kind = "dict"
    THEN IF key.s \in DOMAIN doc.m
         THEN Returned(doc.m[key.s])
         ELSE Thrown("KeyError", 129, key.s)
    ELSE Thrown("TypeError", 129, <<>>)

\* lines 125-131: the value the with-block returns for what f.read() gave
ReadKey(mode, json_key, content) ==
    IF FileModeProperty(mode) = Text
    THEN Returned(Str(Strip(content)))
    ELSE IF FileModeProperty(mode) = Json
    THEN IF JsonLoad(content) = JSONDecodeError
         THEN Thrown("JSONDecodeError", IF Truthy(json_key) THEN 129 ELSE 131, <<>>)
         ELSE IF Truthy(json_key)
              THEN Subscript(JsonLoad(content), json_key)
              ELSE Returned(JsonLoad(content))
    ELSE Returned(None)

\* the warnings the reads of self.file_mode at lines 125 and 127 log
ModeWarnings(mode, path) ==
    IF ~FileModeWarns(mode, path) THEN <<>>
    ELSE IF FileModeProperty(mode) = Text
    THEN <<LogEntry("warning", "file mode and suffix do not match")>>
    ELSE <<LogEntry("warning", "file mode and suffix do not match"),
           LogEntry("warning", "file mode and suffix do not match")>>

\* lines 115-121: the key path, or FileNotFoundError (lines 107-112)
FileLocate ==
    /\ pc = "f_locate"
    /\ IF Truthy(api_key_location) /\ IsFile(api_key_location)
       THEN /\ pc' = "f_read"
            /\ UNCHANGED <<raised, log>>
       ELSE /\ log' = Append(log, LogEntry("error", "FileNotFoundError"))
            /\ Fail("FileNotFoundError", 109, <<"key file not found">>)
    /\ UNCHANGED <<cls, kwargs, api_key, api_key_location, file_mode_attr,
                   json_key_attr, full_url, hasLogger, opens, posts,
                   fileRead, response>>

\* lines 123-134 and the assignment of line 52
FileRead ==
    /\ pc = "f_read"
    /\ opens' = opens + 1
    /\ \E readable \in BOOLEAN, content \in FileContents :
         IF ~readable
         THEN /\ log' = Append(log, LogEntry("error", "IOError"))
              /\ Fail("IOError", 124, <<>>)
              /\ UNCHANGED <<api_key, fileRead>>
         ELSE LET r == ReadKey(file_mode_attr, json_key_attr, content) IN
              /\ fileRead' = Str(content)
              /\ log' = log \o ModeWarnings(file_mode_attr, api_key_location)
              /\ IF r.ok
                 THEN /\ api_key' = r.val
                      /\ pc' = "complete"
                      /\ UNCHANGED raised
                 ELSE /\ Fail(r.exc, r.line, r.arg)
                      /\ UNCHANGED api_key
    /\ UNCHANGED <<cls, kwargs, api_key_location, file_mode_attr,
                   json_key_attr, full_url, hasLogger, posts, response>>

(* ------------------------ RemoteAPIKey.__init__ ----------------------- *)

\* validators.url(value)
ValidatorsUrl(u) ==
    /\ Len(u.s) = 3
    /\ u.s[1] \in {"http", "https"}
    /\ u.s[2] = "://"

\* lines 158-162: the validated_base_url property
ValidatedBaseUrl(base_url) ==
    IF Truthy(base_url) /\ ~ValidatorsUrl(base_url)
    THEN Thrown("ValidationError", 161, <<"Invalid URL">>)
    ELSE Returned(IF Truthy(base_url) THEN base_url ELSE None)

\* str(v) inside an f-string
Format(v) == IF v.kind = "None" THEN <<"None">> ELSE v.s

\* lines 141-143 and 155-156
RemoteInitUrl ==
    /\ pc = "r_url"
    /\ LET r == ValidatedBaseUrl(kwargs.base_url) IN
       IF r.ok
       THEN /\ full_url' = Str(Format(r.val) \o <<"/", Endpoint>>)
            /\ pc' = "r_creds"
            /\ UNCHANGED raised
       ELSE /\ Fail(r.exc, r.line, r.arg)
            /\ UNCHANGED full_url
    /\ UNCHANGED <<cls, kwargs, api_key, api_key_location, file_mode_attr,
                   json_key_attr, hasLogger, log, opens, posts, fileRead,
                   response>>

\* requests raises MissingSchema for a URL that has no scheme
HasScheme(url) == Len(url.s) >= 2 /\ url.s[2] = "://"

\* _fetch_api_key without the test of response.ok
FetchOutcomeIgnoresStatus(resp) ==
    IF resp.kind = "connection_error"
    THEN Thrown("ConnectionError", 177, <<>>)
    ELSE IF JsonLoad(resp.body) = JSONDecodeError
    THEN Thrown("JSONDecodeError", 173, <<>>)
    ELSE Returned(JsonLoad(resp.body))

\* lines 172-177: what _fetch_api_key makes of the response
FetchOutcome(resp) ==
    IF resp.kind = "connection_error"
    THEN Thrown("ConnectionError", 177, <<>>)
    ELSE IF Ok(resp)
    THEN IF JsonLoad(resp.body) = JSONDecodeError
         THEN Thrown("JSONDecodeError", 173, <<>>)
         ELSE Returned(JsonLoad(resp.body))
    ELSE Thrown("RequestException", 175, resp.body)

\* lines 145-149 and 165-177: the credentials and the POST
RemoteInitFetch ==
    /\ pc = "r_creds"
    /\ IF ~Truthy(Get(kwargs.username)) \/ ~Truthy(Get(kwargs.password))
       THEN /\ api_key' = None
            /\ pc' = "r_unwrap"
            /\ UNCHANGED <<posts, response, raised>>
       ELSE /\ posts' = posts + 1
            /\ IF ~HasScheme(full_url)
               THEN /\ Fail("MissingSchema", 167, full_url.s)
                    /\ UNCHANGED <<api_key, response>>
               ELSE \E resp \in Responses :
                      LET r == FetchOutcome(resp) IN
                      /\ response' = resp
                      /\ IF r.ok
                         THEN /\ api_key' = r.val
                              /\ pc' = "r_unwrap"
                              /\ UNCHANGED raised
                         ELSE /\ Fail(r.exc, r.line, r.arg)
                              /\ UNCHANGED api_key
    /\ UNCHANGED <<cls, kwargs, api_key_location, file_mode_attr,
                   json_key_attr, full_url, hasLogger, log, opens, fileRead>>

\* lines 150-151: a mapping is replaced by its api_key entry
Unwrap(v) ==
    IF v.kind = "dict"
    THEN IF <<"api_key">> \in DOMAIN v.m THEN v.m[<<"api_key">>] ELSE None
    ELSE v

RemoteInitUnwrap ==
    /\ pc = "r_unwrap"
    /\ api_key' = Unwrap(api_key)
    /\ pc' = "r_super"
    /\ UNCHANGED <<cls, kwargs, api_key_location, file_mode_attr,
                   json_key_attr, full_url, hasLogger, log, opens, posts,
                   raised, fileRead, response>>

\* line 153: super().__init__(api_key=self.api_key, **kwargs)
RemoteInitSuper ==
    /\ pc = "r_super"
    /\ IF kwargs.api_key # Absent
       THEN Fail("TypeError", 153, <<"multiple values for keyword argument">>)
       ELSE /\ pc' = "base"
            /\ UNCHANGED raised
    /\ UNCHANGED <<cls, kwargs, api_key, api_key_location, file_mode_attr,
                   json_key_attr, full_url, hasLogger, log, opens, posts,
                   fileRead, response>>

(* --------------------------- specification ---------------------------- *)

Next ==
    \/ FileInitPath
    \/ FileInitSuffix
    \/ FileInitMode
    \/ BaseInit
    \/ PrepForFetch
    \/ FileLocate
    \/ FileRead
    \/ Complete
    \/ RemoteInitUrl
    \/ RemoteInitFetch
    \/ RemoteInitUnwrap
    \/ RemoteInitSuper

Spec == Init /\ [][Next]_vars

(* ----------------------------- claims -------------------------------- *)

Finished == pc \in {"done", "failed"}
IsFileStrategy == cls = "APIKeyFromFile"
IsRemoteStrategy == cls = "RemoteAPIKey"
LiteralGiven == Truthy(Get(kwargs.api_key))
LocationGiven == Get(kwargs.api_key_location) # None
InitializationLogged ==
    \E i \in DOMAIN log : log[i] = LogEntry("info", "Initialization complete")

\* C1: with a non-empty literal api_key, construction of either strategy
\* never fails, ends with api_key equal to the literal, and neither opens a
\* file nor issues a POST, whatever the other options are.
C1_LiteralShortCircuits ==
    LiteralGiven =>
        /\ pc # "failed"
        /\ opens = 0
        /\ posts = 0
        /\ (pc = "done" => api_key = kwargs.api_key)

\* the mode C2 expects for the location and the file_mode argument given
C2_ExpectedMode ==
    IF kwargs.file_mode # Absent THEN kwargs.file_mode
    ELSE IF Path(kwargs.api_key_location).suffix = ".json" THEN Json
    ELSE Text

C2_OtherExtension ==
    Path(kwargs.api_key_location).suffix \notin {".json", ".txt"}

\* C2: the mode used for fetching is the explicit file_mode argument when one
\* is given, otherwise json for '.json' and text for '.txt'; for any other
\* extension it is text, a warning is logged and construction goes on.
C2_FileModeResolution ==
    (IsFileStrategy /\ LocationGiven) =>
        /\ (pc \in {"base", "prep", "f_locate", "f_read"}
                => file_mode_attr = C2_ExpectedMode)
        /\ ~(pc = "failed" /\ raised.line = 80)
        /\ (C2_OtherExtension /\ pc \in {"f_mode", "base"}
                => \E i \in DOMAIN log : log[i].level = "warning")

\* r is s without its leading and trailing whitespace
IsTrimOf(r, s) ==
    \E i \in 0..Len(s) : \E j \in i..Len(s) :
        /\ r = SubSeq(s, i + 1, j)
        /\ \A k \in 1..i : s[k] \in Whitespace
        /\ \A k \in (j + 1)..Len(s) : s[k] \in Whitespace
        /\ (r # <<>> => r[1] \notin Whitespace /\ r[Len(r)] \notin Whitespace)

C3_SubKeyPresent(doc) ==
    doc.kind = "dict" /\ json_key_attr.s \in DOMAIN doc.m

\* C3: once the file has been read, in text mode the key is the contents
\* without leading and trailing whitespace; in json mode without a sub-key it
\* is the parsed document; with a sub-key it is the document's value at that
\* key, and when the document has no such key the fetch fails with the error
\* of the extraction (line 129) and yields no key.
C3_FetchFromFile ==
    fileRead # Absent =>
        LET mode == FileModeProperty(file_mode_attr)
            doc == JsonLoad(fileRead.s)
        IN  /\ mode = Text =>
                /\ pc \in {"complete", "done"}
                /\ api_key.kind = "str"
                /\ IsTrimOf(api_key.s, fileRead.s)
            /\ (mode = Json /\ doc # JSONDecodeError /\ ~Truthy(json_key_attr)) =>
                /\ pc \in {"complete", "done"}
                /\ api_key = doc
            /\ (mode = Json /\ doc # JSONDecodeError /\ Truthy(json_key_attr)) =>
                IF C3_SubKeyPresent(doc)
                THEN /\ pc \in {"complete", "done"}
                     /\ api_key = doc.m[json_key_attr.s]
                ELSE /\ pc = "failed"
                     /\ raised.exc \in {"KeyError", "TypeError"}
                     /\ raised.line = 129
                     /\ ~Truthy(api_key)

C3_Witness ==
    /\ pc = "done"
    /\ FileModeProperty(file_mode_attr) = Text
    /\ fileRead = Str(<<" ", "secret123", "\n">>)
    /\ api_key = Str(<<"secret123">>)

\* C4: without a literal key and with a location that is not an existing
\* file, construction ends with the key-file-not-found error; the file is
\* never opened, 'Initialization complete' is not logged and api_key holds no
\* key value.
C4_MissingFile ==
    (IsFileStrategy /\ ~LiteralGiven /\ LocationGiven
        /\ ~IsFile(Path(kwargs.api_key_location))) =>
        /\ pc # "done"
        /\ (pc = "failed" => raised.exc = "FileNotFoundError")
        /\ opens = 0
        /\ ~InitializationLogged
        /\ ~Truthy(api_key)

C5_Precondition ==
    /\ IsRemoteStrategy
    /\ kwargs.api_key = Absent
    /\ ValidatorsUrl(kwargs.base_url)
    /\ Truthy(Get(kwargs.username)) /\ Truthy(Get(kwargs.password))
    /\ response.kind = "http"
    /\ Ok(response)
    /\ JsonLoad(response.body) # JSONDecodeError

\* C5: with a valid base URL, both credentials and a success response, the
\* construction succeeds; the key is the body's api_key entry when the parsed
\* body is a mapping that has one, and the raw parsed body otherwise.
C5_RemoteSuccess ==
    (C5_Precondition /\ Finished) =>
        LET body == JsonLoad(response.body) IN
        /\ pc = "done"
        /\ api_key = IF body.kind = "dict" /\ <<"api_key">> \in DOMAIN body.m
                     THEN body.m[<<"api_key">>]
                     ELSE body

\* C6: a non-success status ends the construction with RequestException
\* carrying the response body, a connection failure with ConnectionError; in
\* both cases exactly one POST was issued and no key is set on the object.
C6_RemoteFailure ==
    /\ posts <= 1
    /\ (response.kind = "http" /\ ~Ok(response)) =>
        /\ pc = "failed"
        /\ raised.exc = "RequestException"
        /\ raised.arg = response.body
        /\ posts = 1
        /\ api_key = Absent
    /\ response.kind = "connection_error" =>
        /\ pc = "failed"
        /\ raised.exc = "ConnectionError"
        /\ posts = 1
        /\ api_key = Absent

C6_Witness ==
    /\ pc = "failed"
    /\ response.kind = "http"
    /\ response.status = 401
    /\ response.body = <<"denied">>
    /\ raised = Raise("RequestException", 175, <<"denied">>)
    /\ posts = 1

\* C7: a base_url that is not a well-formed URL (the empty string included)
\* ends the construction with the invalid-URL error and no POST is issued.
C7_InvalidUrlBeforePost ==
    (IsRemoteStrategy /\ ~ValidatorsUrl(kwargs.base_url)) =>
        /\ posts = 0
        /\ pc \in {"r_url", "failed"}
        /\ (pc = "failed" => raised.exc = "ValidationError")

C8_ResolutionFailures ==
    {"FileNotFoundError", "IOError", "KeyError", "ValidationError",
     "RequestException", "ConnectionError"}

\* C8: every failure of a key resolution has an error entry in the log when
\* it reaches the caller.
C8_ErrorsLogged ==
    (pc = "failed" /\ raised.exc \in C8_ResolutionFailures) =>
        \E i \in DOMAIN log : log[i] = LogEntry("error", raised.exc)

\* C9: with neither a literal key nor a location, the key is fetched from
\* DEFAULT_KEY_LOCATION when it is set, and construction fails with the
\* configuration error (line 102) only when it is not.
C9_DefaultLocation ==
    (IsFileStrategy /\ ~LiteralGiven /\ ~LocationGiven /\ Finished) =>
        IF Truthy(kwargs.DEFAULT_KEY_LOCATION)
        THEN /\ api_key_location = kwargs.DEFAULT_KEY_LOCATION
             /\ ~(pc = "failed" /\ raised.line \in {74, 102})
        ELSE /\ pc = "failed"
             /\ raised = Raise("AttributeError", 102, <<"api_key_location">>)

\* C10: a construction that returns without raising holds a resolved,
\* non-empty api_key.
C10_ResolvedOrFailed ==
    pc = "done" => (InitializationLogged /\ Truthy(api_key))

====
